---- MODULE Spec2Model ----
(***************************************************************************)
(* HttpCompare (bbot/core/helpers/diff.py): baseline calibration from two  *)
(* requests, and compare() of a subject response against the baseline.     *)
(*                                                                         *)
(* A response is [status_code, headers, text].  headers is the            *)
(* case-insensitive dictionary of the HTTP library: a function from the   *)
(* header names as written to their values, no two names equal up to      *)
(* case; lookup and deletion match names up to case, iteration yields the *)
(* names as written.  text is [wf, lines]: wf says whether the markup     *)
(* parser accepts the text, lines is text.split("\n").                    *)
(***************************************************************************)
EXTENDS Integers, Sequences, FiniteSets, TLC

VARIABLES
    state,                    \* "Uncalibrated" | "Calibrated" | "Failed"
    error,                    \* exception that ended __init__, or "none"
    init_pc,                  \* position inside __init__
    log,                      \* transport/sleep events issued by __init__
    baseline,                 \* the object of call 1 (baseline_1, self.baseline)
    baseline_2,               \* the object of call 2 (local of __init__)
    baseline_json,            \* self.baseline_json
    baseline_ignore_headers,  \* self.baseline_ignore_headers (a list)
    baseline_body_distance,   \* self.baseline_body_distance
    call_1,                   \* history: call 1's response as the transport returned it
    call_2,                   \* history: call 2's response, kept while __init__ runs
    calib_dynamic,            \* history: the names the two calibration responses differed in
    inv,                      \* the compare() invocations, one record per caller
    deps                      \* the DepsInstaller instance and its install() call

vars == <<state, error, init_pc, log, baseline, baseline_2, baseline_json,
          baseline_ignore_headers, baseline_body_distance, call_1, call_2,
          calib_dynamic, inv, deps>>

baseline_vars == <<baseline, baseline_json, baseline_ignore_headers,
                   baseline_body_distance>>

init_vars == <<state, error, init_pc, log, baseline_2, call_1, call_2, calib_dynamic,
               deps>>

-----------------------------------------------------------------------------
(* Bounds of the model *)

MaxHeaders == 1
MaxLines == 1
NumCalls == 2

-----------------------------------------------------------------------------
(* Inputs *)

StatusCodes == {200, 500}
HeaderNames == {"Date", "Server"}
HeaderValues == {"v1", "v2"}
BodyTokens == {"m"}
InjectedValues == {<<>>, <<"m">>, <<"m", "m">>}
BaselineUrl == "baseline"
SubjectUrl == "subject"

Calls == 1..NumCalls

\* request() returned None: connection failure
NoResponse == [status_code |-> 0, headers |-> <<>>, text |-> [wf |-> FALSE, lines |-> <<>>]]

Lower(n) ==
    CASE n = "Date" -> "date"
      [] n = "Server" -> "server"
      [] n = "X-It's" -> "x-it's"
      [] n = "X-It" -> "x-it"
      [] OTHER -> n

HeaderCollections ==
    UNION {[S -> HeaderValues] :
              S \in {T \in SUBSET HeaderNames : Cardinality(T) <= MaxHeaders}}

BodyTexts ==
    [wf : BOOLEAN, lines : UNION {[1..k -> BodyTokens] : k \in 0..MaxLines}]

Responses ==
    [status_code : StatusCodes, headers : HeaderCollections, text : BodyTexts]

-----------------------------------------------------------------------------
(* Helpers *)

Range(s) == {s[i] : i \in DOMAIN s}

Max(a, b) == IF a >= b THEN a ELSE b

RECURSIVE SetToSeq(_)
SetToSeq(S) ==
    IF S = {} THEN <<>>
    ELSE LET x == CHOOSE y \in S : TRUE IN <<x>> \o SetToSeq(S \ {x})

\* a plain dictionary: del matches the name as written only
DelHeaderCaseSensitive(headers, name) ==
    [n \in {x \in DOMAIN headers : x # name} |-> headers[n]]

\* del headers[name], KeyError suppressed
DelHeader(headers, name) ==
    [n \in {x \in DOMAIN headers : Lower(x) # Lower(name)} |-> headers[n]]

RECURSIVE DelIgnored(_, _)
DelIgnored(headers, ignored) ==
    IF ignored = <<>> THEN headers
    ELSE DelIgnored(DelHeader(headers, Head(ignored)), Tail(ignored))

\* str(x).split("'")[1] for a report x of DeepDiff's tree view, printed as
\* <root['name'] t1:..., t2:...>: what stands between the first two apostrophes
\* is the header name, or its part before an apostrophe of its own
ReportedName(n) ==
    CASE n = "X-It's" -> "X-It"
      [] OTHER -> n

\* the names read off the reports of one kind
ReportedNames(S) == SetToSeq({ReportedName(n) : n \in S})

\* DeepDiff(headers_1, headers_2, ignore_order=True, view="tree"): the keys of
\* the three reports read by compare_headers, in the order it reads them
DeepDiffHeaders(headers_1, headers_2) ==
    LET added   == DOMAIN headers_2 \ DOMAIN headers_1
        changed == {n \in DOMAIN headers_1 \cap DOMAIN headers_2 :
                        headers_1[n] # headers_2[n]}
        removed == DOMAIN headers_1 \ DOMAIN headers_2
    IN  ReportedNames(added) \o ReportedNames(changed) \o ReportedNames(removed)

\* compare_headers: both arguments are changed in place; the record holds the
\* two dictionaries as the call leaves them and the list it returns
compare_headers(headers_1, headers_2, ignore) ==
    LET h1 == DelIgnored(headers_1, ignore)
        h2 == DelIgnored(headers_2, ignore)
    IN  [headers_1 |-> h1, headers_2 |-> h2,
         matched_headers |-> DeepDiffHeaders(h1, h2)]

\* DeepDiff(..., get_deep_distance=True)["deep_distance"], in whole units:
\* a change of type at the root, or the positions at which two sequences differ
DeepDistance(content_1, content_2) ==
    IF content_1.variant # content_2.variant
    THEN Len(content_1.content) + Len(content_2.content) + 1
    ELSE LET a == content_1.content
             b == content_2.content
         IN  Cardinality({i \in 1..Max(Len(a), Len(b)) :
                            \/ i > Len(a)
                            \/ i > Len(b)
                            \/ a[i] # b[i]})

compare_body(content_1, content_2) ==
    IF content_1 = content_2 THEN 0 ELSE DeepDistance(content_1, content_2)

\* json.loads(xmltojson.parse(text)), which raises ExpatError on malformed text
ParsesAsMarkup(text) == text.wf
MarkupTree(text) == [variant |-> "tree", content |-> text.lines]
\* text.split("\n")
SplitLines(text) == [variant |-> "lines", content |-> text.lines]

\* the try/except of compare(): the subject's structural body
SubjectJson(text) ==
    IF ParsesAsMarkup(text) THEN MarkupTree(text) ELSE SplitLines(text)

\* the try/except of __init__: one ExpatError sends both bodies to the fallback
BaselineJsons(text_1, text_2) ==
    IF ParsesAsMarkup(text_1) /\ ParsesAsMarkup(text_2)
    THEN <<MarkupTree(text_1), MarkupTree(text_2)>>
    ELSE <<SplitLines(text_1), SplitLines(text_2)>>

\* value in subject_response.text
OccursIn(value, text) == value \in Range(text.lines)

\* "if" in place of "elif": the cookie is checked whatever the headers are
ReflectionIfIf(add_headers, add_cookies, text) ==
    \/ Len(add_headers) = 1 /\ OccursIn(add_headers[1], text)
    \/ Len(add_cookies) = 1 /\ OccursIn(add_cookies[1], text)

\* the reflection flag computed by compare()
Reflection(add_headers, add_cookies, text) ==
    IF add_headers # <<>>
    THEN Len(add_headers) = 1 /\ OccursIn(add_headers[1], text)
    ELSE IF add_cookies # <<>>
         THEN Len(add_cookies) = 1 /\ OccursIn(add_cookies[1], text)
         ELSE FALSE

\* the request compare() hands to the transport
SubjectRequest(subject, add_headers, add_cookies) ==
    [url |-> subject, cache_buster |-> TRUE, headers |-> add_headers,
     cookies |-> <<>>, allow_redirects |-> FALSE]

BaselineRequest ==
    [url |-> BaselineUrl, cache_buster |-> TRUE, headers |-> <<>>,
     cookies |-> <<>>, allow_redirects |-> FALSE]

\* sleep(2), as an entry of the log
SleepEvent ==
    [url |-> "sleep", cache_buster |-> FALSE, headers |-> <<>>,
     cookies |-> <<>>, allow_redirects |-> FALSE]

SeededIgnoreHeaders == <<"date", "last-modified", "content-length">>

UnsetJson == [variant |-> "unset", content |-> <<>>]
UnsetDistance == 0 - 1
NoResult == <<FALSE, "unset", FALSE>>

IdleInv ==
    [pc |-> "idle", add_headers |-> <<>>, add_cookies |-> <<>>,
     request |-> BaselineRequest, sent |-> 0, response |-> NoResponse,
     subject_headers |-> <<>>, reflection |-> FALSE,
     subject_json |-> UnsetJson, different_headers |-> <<>>,
     subject_body_distance |-> UnsetDistance, result |-> NoResult]

\* no DepsInstaller in use
NoInstaller == [pc |-> "none"]

-----------------------------------------------------------------------------
(* __init__ *)

Init ==
    /\ state = "Uncalibrated"
    /\ error = "none"
    /\ init_pc = "call1"
    /\ log = <<>>
    /\ baseline = NoResponse
    /\ baseline_2 = NoResponse
    /\ baseline_json = UnsetJson
    /\ baseline_ignore_headers = <<>>
    /\ baseline_body_distance = UnsetDistance
    /\ call_1 = NoResponse
    /\ call_2 = NoResponse
    /\ calib_dynamic = {}
    /\ inv = [t \in Calls |-> IdleInv]
    /\ deps = NoInstaller

\* line 18: baseline_1 = request(baseline_url + cache buster, allow_redirects=False)
CalibCall1(R) ==
    /\ init_pc = "call1"
    /\ \E r \in R \cup {NoResponse} :
          /\ baseline' = r
          /\ call_1' = r
    /\ log' = Append(log, BaselineRequest)
    /\ init_pc' = "sleep"
    /\ UNCHANGED <<state, error, baseline_2, baseline_json, baseline_ignore_headers,
                   baseline_body_distance, call_2, calib_dynamic, inv, deps>>

\* line 19: sleep(2)
CalibSleep ==
    /\ init_pc = "sleep"
    /\ log' = Append(log, SleepEvent)
    /\ init_pc' = "call2"
    /\ UNCHANGED <<state, error, baseline, baseline_2, baseline_json,
                   baseline_ignore_headers, baseline_body_distance, call_1, call_2, calib_dynamic, inv, deps>>

\* line 20: baseline_2 = request(...)
CalibCall2(R) ==
    /\ init_pc = "call2"
    /\ \E r \in R \cup {NoResponse} :
          /\ baseline_2' = r
          /\ call_2' = r
    /\ log' = Append(log, BaselineRequest)
    /\ init_pc' = "build"
    /\ UNCHANGED <<state, error, baseline, baseline_json, baseline_ignore_headers,
                   baseline_body_distance, call_1, calib_dynamic, inv, deps>>

\* a None response skipped over: __init__ returns with the baseline unbuilt
CalibReturnsPartial ==
    /\ init_pc = "build"
    /\ baseline = NoResponse \/ baseline_2 = NoResponse
    /\ init_pc' = "returned"
    /\ state' = "Calibrated"
    /\ UNCHANGED <<error, log, baseline, baseline_2, baseline_json,
                   baseline_ignore_headers, baseline_body_distance, call_1, call_2,
                   calib_dynamic, inv, deps>>

\* lines 21-24, a transport failure: None has no status_code
CalibRaiseAttributeError ==
    /\ init_pc = "build"
    /\ baseline = NoResponse \/ baseline_2 = NoResponse
    /\ init_pc' = "raised"
    /\ state' = "Failed"
    /\ error' = "AttributeError"
    /\ UNCHANGED <<log, baseline, baseline_2, baseline_json, baseline_ignore_headers,
                   baseline_body_distance, call_1, call_2, calib_dynamic, inv, deps>>

\* history: the names, seeded ones apart, present in one of the two header
\* collections only or with two values
DiffersIn(a, b) ==
    {n \in DOMAIN a \cup DOMAIN b :
        /\ \A i \in Range(SeededIgnoreHeaders) : Lower(i) # Lower(n)
        /\ \/ n \notin DOMAIN a
           \/ n \notin DOMAIN b
           \/ a[n] # b[n]}

\* lines 25-39 as one step of __init__
BuildBaseline ==
    LET jsons == BaselineJsons(baseline.text, baseline_2.text)
        cmp   == compare_headers(baseline.headers, baseline_2.headers,
                                 SeededIgnoreHeaders)
    IN  /\ baseline_json' = jsons[1]
        /\ baseline' = [baseline EXCEPT !.headers = cmp.headers_1]
        /\ baseline_2' = [baseline_2 EXCEPT !.headers = cmp.headers_2]
        /\ baseline_ignore_headers' = SeededIgnoreHeaders \o cmp.matched_headers
        /\ baseline_body_distance' = compare_body(jsons[1], jsons[2])
        /\ calib_dynamic' = DiffersIn(call_1.headers, call_2.headers)
        /\ init_pc' = "built"
        /\ UNCHANGED <<state, error, log, call_1, call_2, inv, deps>>

\* the status code check left out: an unstable baseline is built all the same
CalibIgnoreStatusMismatch ==
    /\ init_pc = "build"
    /\ baseline # NoResponse /\ baseline_2 # NoResponse
    /\ baseline.status_code # baseline_2.status_code
    /\ BuildBaseline

\* lines 23-24: the two status codes differ
CalibRaiseHttpCompareError ==
    /\ init_pc = "build"
    /\ baseline # NoResponse /\ baseline_2 # NoResponse
    /\ baseline.status_code # baseline_2.status_code
    /\ init_pc' = "raised"
    /\ state' = "Failed"
    /\ error' = "HttpCompareError"
    /\ UNCHANGED <<log, baseline, baseline_2, baseline_json, baseline_ignore_headers,
                   baseline_body_distance, call_1, call_2, calib_dynamic, inv, deps>>

\* lines 25-39: parse both bodies, discover the dynamic headers, measure the distance
CalibBuild ==
    /\ init_pc = "build"
    /\ baseline # NoResponse /\ baseline_2 # NoResponse
    /\ baseline.status_code = baseline_2.status_code
    /\ BuildBaseline

\* __init__ returns: the instance exists, the locals are gone
CalibReturn ==
    /\ init_pc = "built"
    /\ init_pc' = "returned"
    /\ state' = "Calibrated"
    /\ baseline_2' = NoResponse
    /\ call_2' = NoResponse
    /\ UNCHANGED <<error, log, baseline, baseline_json, baseline_ignore_headers,
                   baseline_body_distance, call_1, calib_dynamic, inv, deps>>

-----------------------------------------------------------------------------
(* compare *)

\* the subject request as compare() issues it, with the locals it starts from
Requested(add_headers, add_cookies, r) ==
    [IdleInv EXCEPT
        !.add_headers = add_headers,
        !.add_cookies = add_cookies,
        !.request = SubjectRequest(SubjectUrl, add_headers, add_cookies),
        !.sent = 1,
        !.response = r,
        !.subject_headers = r.headers,
        !.pc = "requested"]

\* a failed subject request issued once more before giving up
CompareRequestRetries(t, R, X) ==
    /\ state = "Calibrated"
    /\ inv[t].pc = "idle"
    /\ \E add_headers \in X, add_cookies \in X, r \in R \cup {NoResponse} :
          inv' = [inv EXCEPT ![t] =
                    IF r = NoResponse
                    THEN [Requested(add_headers, add_cookies, r) EXCEPT
                             !.sent = 2,
                             !.pc = "done",
                             !.result = <<TRUE, "403", FALSE>>]
                    ELSE Requested(add_headers, add_cookies, r)]
    /\ UNCHANGED <<baseline_vars, init_vars>>

\* the "if not subject_response" test left out: None goes on to the checks
CompareRequestNoneUnchecked(t, R, X) ==
    /\ state = "Calibrated"
    /\ inv[t].pc = "idle"
    /\ \E add_headers \in X, add_cookies \in X, r \in R \cup {NoResponse} :
          inv' = [inv EXCEPT ![t] = Requested(add_headers, add_cookies, r)]
    /\ UNCHANGED <<baseline_vars, init_vars>>

\* lines 92-99: the subject request; None ends the call with the sentinel
CompareRequest(t, R, X) ==
    /\ state = "Calibrated"
    /\ inv[t].pc = "idle"
    /\ \E add_headers \in X, add_cookies \in X, r \in R \cup {NoResponse} :
          inv' = [inv EXCEPT ![t] =
                    IF r = NoResponse
                    THEN [Requested(add_headers, add_cookies, r) EXCEPT
                             !.pc = "done",
                             !.result = <<TRUE, "403", FALSE>>]
                    ELSE Requested(add_headers, add_cookies, r)]
    /\ UNCHANGED <<baseline_vars, init_vars>>

\* the status code check left out: headers and body decide alone
CompareInspectNoCodeCheck(t) ==
    /\ inv[t].pc = "requested"
    /\ LET c == inv[t]
       IN  inv' = [inv EXCEPT ![t] =
                     [c EXCEPT
                        !.reflection = Reflection(c.add_headers, c.add_cookies,
                                                  c.response.text),
                        !.subject_json = SubjectJson(c.response.text),
                        !.pc = "inspected"]]
    /\ UNCHANGED <<baseline_vars, init_vars>>

\* lines 101-121: reflection check, parse, status code check
CompareInspect(t) ==
    /\ inv[t].pc = "requested"
    /\ LET c          == inv[t]
           reflection == Reflection(c.add_headers, c.add_cookies, c.response.text)
           differs    == baseline.status_code # c.response.status_code
       IN  inv' = [inv EXCEPT ![t] =
                     [c EXCEPT
                        !.reflection = reflection,
                        !.subject_json = SubjectJson(c.response.text),
                        !.pc = IF differs THEN "done" ELSE "inspected",
                        !.result = IF differs THEN <<FALSE, "code", reflection>>
                                   ELSE NoResult]]
    /\ UNCHANGED <<baseline_vars, init_vars>>

\* the headers found different are added to the ignore list, as __init__ does
CompareHeadersLearns(t) ==
    /\ inv[t].pc = "inspected"
    /\ LET c   == inv[t]
           cmp == compare_headers(baseline.headers, c.subject_headers,
                                  baseline_ignore_headers)
           different_headers == cmp.matched_headers
       IN  /\ baseline' = [baseline EXCEPT !.headers = cmp.headers_1]
           /\ baseline_ignore_headers' = baseline_ignore_headers \o different_headers
           /\ inv' = [inv EXCEPT ![t] =
                        [c EXCEPT
                           !.subject_headers = cmp.headers_2,
                           !.different_headers = different_headers,
                           !.pc = IF different_headers # <<>> THEN "done"
                                  ELSE "compared",
                           !.result = IF different_headers # <<>>
                                      THEN <<FALSE, "header", c.reflection>>
                                      ELSE NoResult]]
    /\ UNCHANGED <<baseline_json, baseline_body_distance, init_vars>>

\* lines 123-126: compare_headers(self.baseline.headers, subject_response.headers)
CompareHeaders(t) ==
    /\ inv[t].pc = "inspected"
    /\ LET c   == inv[t]
           cmp == compare_headers(baseline.headers, c.subject_headers,
                                  baseline_ignore_headers)
           different_headers == cmp.matched_headers
       IN  /\ baseline' = [baseline EXCEPT !.headers = cmp.headers_1]
           /\ inv' = [inv EXCEPT ![t] =
                        [c EXCEPT
                           !.subject_headers = cmp.headers_2,
                           !.different_headers = different_headers,
                           !.pc = IF different_headers # <<>> THEN "done"
                                  ELSE "compared",
                           !.result = IF different_headers # <<>>
                                      THEN <<FALSE, "header", c.reflection>>
                                      ELSE NoResult]]
    /\ UNCHANGED <<baseline_json, baseline_ignore_headers, baseline_body_distance,
                   init_vars>>

\* a match that hands back the reflection flag it computed
CompareBodyKeepsReflection(t) ==
    /\ inv[t].pc = "compared"
    /\ LET c == inv[t]
           subject_body_distance == compare_body(baseline_json, c.subject_json)
       IN  inv' = [inv EXCEPT ![t] =
                     [c EXCEPT
                        !.subject_body_distance = subject_body_distance,
                        !.pc = "done",
                        !.result = IF baseline_body_distance # subject_body_distance
                                   THEN <<FALSE, "body", c.reflection>>
                                   ELSE <<TRUE, "none", c.reflection>>]]
    /\ UNCHANGED <<baseline_vars, init_vars>>

\* a tolerance band: any distance up to the noise floor is a match
CompareBodyTolerant(t) ==
    /\ inv[t].pc = "compared"
    /\ LET c == inv[t]
           subject_body_distance == compare_body(baseline_json, c.subject_json)
       IN  inv' = [inv EXCEPT ![t] =
                     [c EXCEPT
                        !.subject_body_distance = subject_body_distance,
                        !.pc = "done",
                        !.result = IF subject_body_distance > baseline_body_distance
                                   THEN <<FALSE, "body", c.reflection>>
                                   ELSE <<TRUE, "none", FALSE>>]]
    /\ UNCHANGED <<baseline_vars, init_vars>>

\* lines 128-136: the body distance against the noise floor
CompareBody(t) ==
    /\ inv[t].pc = "compared"
    /\ LET c == inv[t]
           subject_body_distance == compare_body(baseline_json, c.subject_json)
       IN  inv' = [inv EXCEPT ![t] =
                     [c EXCEPT
                        !.subject_body_distance = subject_body_distance,
                        !.pc = "done",
                        !.result = IF baseline_body_distance # subject_body_distance
                                   THEN <<FALSE, "body", c.reflection>>
                                   ELSE <<TRUE, "none", FALSE>>]]
    /\ UNCHANGED <<baseline_vars, init_vars>>

\* the caller takes the result; the invocation's locals are gone
CompareReturn(t) ==
    /\ inv[t].pc = "done"
    /\ inv' = [inv EXCEPT ![t] = IdleInv]
    /\ UNCHANGED <<baseline_vars, init_vars>>

-----------------------------------------------------------------------------
(* Specifications *)

\* one caller: compare() calls follow each other
Next ==
    \/ CalibCall1(Responses)
    \/ CalibSleep
    \/ CalibCall2(Responses)
    \/ CalibRaiseAttributeError
    \/ CalibRaiseHttpCompareError
    \/ CalibBuild
    \/ CalibReturn
    \/ CompareRequest(1, Responses, InjectedValues)
    \/ CompareInspect(1)
    \/ CompareHeaders(1)
    \/ CompareBody(1)
    \/ CompareReturn(1)

Spec == Init /\ [][Next]_vars

\* the inputs of the concurrent callers: every status code and header
\* collection, one body, nothing injected
ConcResponses == {r \in Responses : r.text.wf /\ r.text.lines = <<>>}
ConcInjected == {<<>>}

\* NumCalls callers on independent threads, each inside its own compare()
NextConc ==
    \/ CalibCall1(ConcResponses)
    \/ CalibSleep
    \/ CalibCall2(ConcResponses)
    \/ CalibRaiseAttributeError
    \/ CalibRaiseHttpCompareError
    \/ CalibBuild
    \/ CalibReturn
    \/ \E t \in Calls : CompareRequest(t, ConcResponses, ConcInjected)
    \/ \E t \in Calls : CompareInspect(t)
    \/ \E t \in Calls : CompareHeaders(t)
    \/ \E t \in Calls : CompareBody(t)
    \/ \E t \in Calls : CompareReturn(t)

SpecConc == Init /\ [][NextConc]_vars

\* header names as a server may write them: two spellings of one name, and a
\* name with an apostrophe (a legal character of an HTTP header name)
WrittenHeaderNames == {"Server", "server", "X-It's"}

WrittenHeaderCollections ==
    UNION {[S -> HeaderValues] :
              S \in {T \in SUBSET WrittenHeaderNames :
                        /\ Cardinality(T) <= MaxHeaders
                        /\ \A x, y \in T : Lower(x) = Lower(y) => x = y}}

WrittenResponses ==
    [status_code : StatusCodes, headers : WrittenHeaderCollections,
     text : {[wf |-> TRUE, lines |-> <<>>]}]

\* one caller, responses whose header names vary in spelling
NextNames ==
    \/ CalibCall1(WrittenResponses)
    \/ CalibSleep
    \/ CalibCall2(WrittenResponses)
    \/ CalibRaiseAttributeError
    \/ CalibRaiseHttpCompareError
    \/ CalibBuild
    \/ CalibReturn
    \/ CompareRequest(1, WrittenResponses, ConcInjected)
    \/ CompareInspect(1)
    \/ CompareHeaders(1)
    \/ CompareBody(1)
    \/ CompareReturn(1)

SpecNames == Init /\ [][NextNames]_vars

-----------------------------------------------------------------------------
(* Properties *)

Done(t) == inv[t].pc = "done"
Usable(t) == inv[t].response # NoResponse
Reason(t) == inv[t].result[2]

\* The header difference as HeaderDiffer states it: the names, ignored ones
\* left out up to case, present in one collection only or with two values
HeaderDiffNames(a, b, ignore) ==
    {n \in DOMAIN a \cup DOMAIN b :
        /\ \A i \in Range(ignore) : Lower(i) # Lower(n)
        /\ \/ n \notin DOMAIN a
           \/ n \notin DOMAIN b
           \/ a[n] # b[n]}

\* The header difference of a subject response against call 1's headers
SubjectHeaderDiff(t) ==
    HeaderDiffNames(call_1.headers, inv[t].response.headers, baseline_ignore_headers)

CodeDiffers(t) == call_1.status_code # inv[t].response.status_code

\* C1: on a usable subject response, a status code different from the
\* baseline's gives (false, "code", reflection) whatever headers and body are;
\* "header" is reported exactly when the codes are equal and the header
\* difference is non-empty; "body" only when the codes are equal and the header
\* difference is empty; the result carries one reason.
C1_ReasonPrecedence ==
    \A t \in Calls :
        Done(t) /\ Usable(t) =>
            /\ CodeDiffers(t) => inv[t].result = <<FALSE, "code", inv[t].reflection>>
            /\ Reason(t) = "code" => CodeDiffers(t)
            /\ Reason(t) = "header" <=> ~CodeDiffers(t) /\ SubjectHeaderDiff(t) # {}
            /\ Reason(t) = "body" => ~CodeDiffers(t) /\ SubjectHeaderDiff(t) = {}
            /\ Reason(t) \in {"code", "header", "body", "none"}
            /\ inv[t].result[1] <=> Reason(t) = "none"

\* C1 witness: the code differs and so do a header and the body; "code" is reported
C1_Witness ==
    \E t \in Calls :
        /\ Done(t) /\ Usable(t) /\ Reason(t) = "code"
        /\ SubjectHeaderDiff(t) # {}
        /\ inv[t].response.text # call_1.text

\* C2: with equal status codes and an empty header difference, compare()
\* matches iff the distance from the baseline's structural body to the
\* subject's equals the noise floor; any other distance, 0 under a non-zero
\* noise floor included, gives (false, "body", reflection).
C2_BodyDistanceExact ==
    \A t \in Calls :
        Done(t) /\ Usable(t) /\ ~CodeDiffers(t) /\ SubjectHeaderDiff(t) = {} =>
            LET d == compare_body(baseline_json, SubjectJson(inv[t].response.text))
            IN  IF d = baseline_body_distance
                THEN inv[t].result = <<TRUE, "none", FALSE>>
                ELSE inv[t].result = <<FALSE, "body", inv[t].reflection>>

\* C2 witness: a non-zero noise floor and a subject identical to call 1: "body"
C2_Witness ==
    \E t \in Calls :
        /\ Done(t) /\ Usable(t) /\ Reason(t) = "body"
        /\ baseline_body_distance > 0
        /\ compare_body(baseline_json, inv[t].subject_json) = 0

\* C3: calibration responses with two status codes end __init__ with
\* HttpCompareError and no instance; no compare() runs on a failed baseline;
\* Calibrated and Failed are never left.
C3_UnstableBaselineFails ==
    [][/\ ( /\ init_pc = "build"
            /\ call_1 # NoResponse /\ call_2 # NoResponse
            /\ call_1.status_code # call_2.status_code )
          => state' = "Failed" /\ error' = "HttpCompareError"
       /\ state' = "Calibrated"
          => call_1 # NoResponse /\ error' = "none"
       /\ state' = "Failed" => \A t \in Calls : inv'[t] = IdleInv
       /\ state \in {"Calibrated", "Failed"} => state' = state
       /\ state = "Uncalibrated" /\ state' = "Calibrated"
          => call_1.status_code = call_2.status_code]_vars

\* C3 witness: __init__ has raised HttpCompareError on codes 200 and 500
C3_Witness ==
    /\ state = "Failed" /\ error = "HttpCompareError"
    /\ call_1.status_code = 200 /\ call_2.status_code = 500

\* C4: an unreachable subject request ends compare() at once with
\* (true, sentinel, false), whatever headers and cookies were supplied, with no
\* reflection, status, header or body check made and the baseline untouched.
C4_UnreachableIsNonSignal ==
    [][\A t \in Calls :
          inv[t].pc = "idle" /\ inv'[t].pc # "idle" /\ inv'[t].response = NoResponse
          => /\ inv'[t].pc = "done"
             /\ inv'[t].result = <<TRUE, "403", FALSE>>
             /\ inv'[t].reflection = FALSE
             /\ inv'[t].subject_json = UnsetJson
             /\ inv'[t].different_headers = <<>>
             /\ inv'[t].subject_body_distance = UnsetDistance
             /\ UNCHANGED baseline_vars]_vars

\* C4 witness: an unreachable subject with one extra header and one extra cookie
C4_Witness ==
    \E t \in Calls :
        /\ Done(t) /\ ~Usable(t)
        /\ inv[t].add_headers = <<"m">> /\ inv[t].add_cookies = <<"m">>
        /\ inv[t].result = <<TRUE, "403", FALSE>>

Inspected(t) == inv[t].pc \in {"inspected", "compared", "done"} /\ Usable(t)

\* C5 as stated: the reflection flag is set only with exactly one extra header
\* or exactly one extra cookie; with exactly one extra header, and with exactly
\* one extra cookie, it is true iff that value occurs in the subject body; with
\* two or more extra headers it is false.
C5_ReflectionAsStated ==
    \A t \in Calls :
        Inspected(t) =>
            LET c == inv[t]
            IN  /\ c.reflection => Len(c.add_headers) = 1 \/ Len(c.add_cookies) = 1
                /\ Len(c.add_headers) = 1
                   => (c.reflection <=> OccursIn(c.add_headers[1], c.response.text))
                /\ Len(c.add_cookies) = 1
                   => (c.reflection <=> OccursIn(c.add_cookies[1], c.response.text))
                /\ Len(c.add_headers) >= 2 => ~c.reflection

\* C5 amended: the cookie is looked at only when no extra header was supplied.
\* With exactly one extra header the flag is true iff the header's value occurs
\* in the subject body; with no extra header and exactly one extra cookie it is
\* true iff the cookie's value occurs there; in every other case it is false.
C5_ReflectionSingleValue ==
    \A t \in Calls :
        Inspected(t) =>
            LET c == inv[t]
            IN  /\ Len(c.add_headers) = 1
                   => (c.reflection <=> OccursIn(c.add_headers[1], c.response.text))
                /\ Len(c.add_headers) = 0 /\ Len(c.add_cookies) = 1
                   => (c.reflection <=> OccursIn(c.add_cookies[1], c.response.text))
                /\ Len(c.add_headers) >= 2 => ~c.reflection
                /\ Len(c.add_headers) = 0 /\ Len(c.add_cookies) # 1 => ~c.reflection

\* C5 witness: two extra headers and one extra cookie, the value in the body,
\* and no reflection reported
C5_Witness ==
    \E t \in Calls :
        /\ Inspected(t)
        /\ Len(inv[t].add_headers) = 2 /\ Len(inv[t].add_cookies) = 1
        /\ OccursIn(inv[t].add_cookies[1], inv[t].response.text)
        /\ ~inv[t].reflection

\* C6: once calibrated, the ignore list and the noise floor keep the values
\* __init__ gave them through every step of every compare().
C6_IgnoreSetAndNoiseFloorFixed ==
    [][state = "Calibrated"
       => /\ baseline_ignore_headers' = baseline_ignore_headers
          /\ baseline_body_distance' = baseline_body_distance]_vars

\* C6 witness: a compare() has found a header difference on a calibrated baseline
C6_Witness ==
    \E t \in Calls :
        /\ state = "Calibrated" /\ Done(t)
        /\ Reason(t) = "header" /\ inv[t].different_headers # <<>>

\* C7: the reference values are call 1's status code, headers and structural
\* body, unchanged by construction and by every compare().
C7_ReferenceValuesReadOnly ==
    state = "Calibrated" =>
        /\ baseline.status_code = call_1.status_code
        /\ baseline.headers = call_1.headers
        /\ baseline.text = call_1.text
        /\ baseline_json.content = call_1.text.lines

\* C9: the subject request goes to the subject URL with a cache buster and
\* redirects disabled, and carries the extra headers and the extra cookies.
C9_RequestCarriesHeadersAndCookies ==
    \A t \in Calls :
        inv[t].pc # "idle" =>
            /\ inv[t].request.url = SubjectUrl
            /\ inv[t].request.cache_buster
            /\ ~inv[t].request.allow_redirects
            /\ inv[t].request.headers = inv[t].add_headers
            /\ inv[t].request.cookies = inv[t].add_cookies

LowerSeeded == {Lower(n) : n \in Range(SeededIgnoreHeaders)}

\* C10: when __init__ has computed the baseline, the ignore list holds the
\* seeded names and exactly the other names found in one calibration response
\* only or with two values, and the noise floor is the distance of the two
\* bodies; two responses equal but for Date give 0 and the seeded names alone.
C10_CalibrationResult ==
    init_pc = "built" =>
        LET h1 == call_1.headers
            h2 == call_2.headers
            jsons == BaselineJsons(call_1.text, call_2.text)
            dynamic == {n \in DOMAIN h1 \cup DOMAIN h2 :
                          /\ Lower(n) \notin LowerSeeded
                          /\ \/ n \notin DOMAIN h1
                             \/ n \notin DOMAIN h2
                             \/ h1[n] # h2[n]}
        IN  /\ Range(baseline_ignore_headers) = Range(SeededIgnoreHeaders) \cup dynamic
            /\ Len(baseline_ignore_headers) = Len(SeededIgnoreHeaders) + Cardinality(dynamic)
            /\ baseline_body_distance = compare_body(jsons[1], jsons[2])
            /\ call_1.text = call_2.text => baseline_body_distance = 0
            /\ ( /\ call_1.text = call_2.text
                 /\ DelHeader(h1, "date") = DelHeader(h2, "date") )
               => baseline_ignore_headers = SeededIgnoreHeaders

\* C10 witness: the two calibration responses differ in the Date header only
C10_Witness ==
    /\ init_pc = "built"
    /\ call_1.text = call_2.text
    /\ "Date" \in DOMAIN call_1.headers /\ "Date" \in DOMAIN call_2.headers
    /\ call_1.headers["Date"] # call_2.headers["Date"]
    /\ baseline_ignore_headers = SeededIgnoreHeaders
    /\ baseline_body_distance = 0

\* The result compare() gives when it runs alone on the baseline as __init__
\* left it
SoloResult(c) ==
    IF c.response = NoResponse THEN <<TRUE, "403", FALSE>>
    ELSE LET reflection == Reflection(c.add_headers, c.add_cookies, c.response.text)
             fresh == DelIgnored(call_1.headers, SeededIgnoreHeaders)
             different_headers ==
                 compare_headers(fresh, c.response.headers,
                                 baseline_ignore_headers).matched_headers
         IN  IF call_1.status_code # c.response.status_code
             THEN <<FALSE, "code", reflection>>
             ELSE IF different_headers # <<>>
             THEN <<FALSE, "header", reflection>>
             ELSE IF compare_body(baseline_json, SubjectJson(c.response.text))
                        # baseline_body_distance
             THEN <<FALSE, "body", reflection>>
             ELSE <<TRUE, "none", FALSE>>

\* C8: interleaved compare() calls write nothing they share, each only reads
\* the baseline, and each returns what it would return running alone.
C8_ComparesShareNothing ==
    [][state = "Calibrated"
       => /\ UNCHANGED baseline_vars
          /\ \A t \in Calls :
                inv'[t].pc = "done" => inv'[t].result = SoloResult(inv'[t])]_vars

HeadersCompared(t) ==
    /\ Usable(t)
    /\ \/ inv[t].pc = "compared"
       \/ Done(t) /\ Reason(t) \in {"header", "body", "none"}

\* C12: the header diff returns exactly the names, ignored ones left out up to
\* case, that are present in one of the two collections only or in both with
\* different values, and nothing iff there is no such name; stated of the call
\* __init__ makes on the two calibration responses and of the call compare()
\* makes on the baseline and the subject.
C12_HeaderDiffExact ==
    /\ init_pc = "built" =>
          Range(SubSeq(baseline_ignore_headers, Len(SeededIgnoreHeaders) + 1,
                       Len(baseline_ignore_headers)))
            = HeaderDiffNames(call_1.headers, call_2.headers, SeededIgnoreHeaders)
    /\ \A t \in Calls :
          HeadersCompared(t) =>
              /\ Range(inv[t].different_headers)
                   = HeaderDiffNames(baseline.headers, inv[t].response.headers,
                                     baseline_ignore_headers)
              /\ inv[t].different_headers = <<>>
                   <=> HeaderDiffNames(baseline.headers, inv[t].response.headers,
                                       baseline_ignore_headers) = {}

\* the names two header collections differ in
Differing(a, b) ==
    {n \in DOMAIN a \cup DOMAIN b :
        n \notin DOMAIN a \/ n \notin DOMAIN b \/ a[n] # b[n]}

\* C15: a name found dynamic during calibration never causes a "header"
\* mismatch: a subject response with the baseline's status code whose headers
\* differ from call 1's in seeded or discovered-dynamic names only is not
\* reported as "header".
C15_DynamicHeaderNeverMismatches ==
    \A t \in Calls :
        ( /\ Done(t) /\ Usable(t) /\ ~CodeDiffers(t)
          /\ \A n \in Differing(call_1.headers, inv[t].response.headers) :
                \/ Lower(n) \in {Lower(i) : i \in Range(SeededIgnoreHeaders)}
                \/ Lower(n) \in {Lower(d) : d \in calib_dynamic} )
        => Reason(t) # "header"

\* C13: the two structural forms of every body distance computation have the
\* same variant: in calibration one parse failure makes both bodies line
\* sequences; in compare() the subject's form has the variant of the
\* baseline's stored structural body.
C13_SameVariant ==
    /\ init_pc = "built" =>
          LET jsons == BaselineJsons(call_1.text, call_2.text)
          IN  /\ jsons[1].variant = jsons[2].variant
              /\ ~call_1.text.wf \/ ~call_2.text.wf => jsons[1].variant = "lines"
              /\ baseline_json = jsons[1]
    /\ \A t \in Calls :
          inv[t].subject_body_distance # UnsetDistance
          => inv[t].subject_json.variant = baseline_json.variant

\* C14: __init__ issues two requests to the baseline URL, the second after the
\* first and after the sleep, each with a cache buster of its own and redirects
\* disabled, and none after the status code check; compare() issues one
\* request, and does not issue a failed one again.
C14_RequestCountAndOrder ==
    /\ init_pc = "call1" => log = <<>>
    /\ init_pc = "sleep" => log = <<BaselineRequest>>
    /\ init_pc = "call2" => log = <<BaselineRequest, SleepEvent>>
    /\ init_pc \in {"build", "built", "returned", "raised"}
       => log = <<BaselineRequest, SleepEvent, BaselineRequest>>
    /\ \A i \in DOMAIN log :
          log[i] # SleepEvent
          => /\ log[i].url = BaselineUrl
             /\ log[i].cache_buster
             /\ ~log[i].allow_redirects
    /\ \A t \in Calls :
          /\ inv[t].pc = "idle" => inv[t].sent = 0
          /\ inv[t].pc # "idle"
             => /\ inv[t].sent = 1
                /\ inv[t].request.cache_buster
                /\ ~inv[t].request.allow_redirects

\* C14 witness: a compare() ended by an unreachable subject, one request sent
C14_Witness ==
    \E t \in Calls :
        /\ Done(t) /\ ~Usable(t) /\ inv[t].sent = 1
        /\ log = <<BaselineRequest, SleepEvent, BaselineRequest>>

\* C16: an unreachable calibration call ends __init__ with an exception: no
\* instance is returned, with a partial baseline or otherwise, and no
\* compare() runs.
C16_UnreachableCalibrationFails ==
    [][/\ ( /\ init_pc = "build"
            /\ call_1 = NoResponse \/ call_2 = NoResponse )
          => /\ state' = "Failed" /\ error' # "none"
             /\ baseline_json' = UnsetJson
             /\ baseline_ignore_headers' = <<>>
             /\ baseline_body_distance' = UnsetDistance
       /\ state = "Uncalibrated" /\ state' = "Calibrated"
          => /\ call_1 # NoResponse /\ call_2 # NoResponse
             /\ baseline_json' # UnsetJson
             /\ baseline_ignore_headers' # <<>>
             /\ baseline_body_distance' # UnsetDistance
       /\ state' # "Calibrated" => \A t \in Calls : inv'[t] = IdleInv]_vars

\* C16 witness: call 1 answered, call 2 did not, and __init__ has raised
C16_Witness ==
    /\ state = "Failed" /\ error = "AttributeError"
    /\ call_1 # NoResponse /\ call_2 = NoResponse

-----------------------------------------------------------------------------
(* DepsInstaller, installer.py *)

\* longest argument list of install(*modules)
MaxModules == 2

\* names passed to install(): "x" is not in the module table
ModuleNames == {"a", "b", "c", "x"}

\* all_modules_preloaded: "a" and "b" have the same dependencies and so the
\* same hash, "b" needs sudo, "c" has no dependencies
all_modules_preloaded ==
    [m \in {"a", "b", "c"} |->
        CASE m = "a" -> [deps_hash |-> "h1", dependencies |-> <<"pkg">>, sudo |-> FALSE]
          [] m = "b" -> [deps_hash |-> "h1", dependencies |-> <<"pkg">>, sudo |-> TRUE]
          [] m = "c" -> [deps_hash |-> "h0", dependencies |-> <<>>, sudo |-> FALSE]]

\* the values of setup_status, and None for a missing key
StatusValues == {"True", "False"}

\* setup_status as read_setup_status() can return it: every dict from a hash
\* to a past outcome, the empty dict for a missing or unreadable file
SetupStatuses == UNION {[S -> StatusValues] : S \in SUBSET {"h1"}}

\* what install_module(m) does: returns True, returns False, or raises
InstallOutcomes == {"True", "False", "raises"}

\* the argument lists of install()
ModuleLists == UNION {[1..n -> ModuleNames] : n \in 0..MaxModules}

\* json.dump of setup_status: an object of key and literal pairs
JsonDump(d) == {<<k, IF d[k] = "True" THEN "true" ELSE "false">> : k \in DOMAIN d}

\* json.load of the cache file
JsonLoad(f) ==
    [k \in {e[1] : e \in f} |->
        IF <<k, "true">> \in f THEN "True" ELSE "False"]

\* line 54: self.setup_status.get(module_hash, None)
Get(d, k) == IF k \in DOMAIN d THEN d[k] ELSE "None"

\* line 73: self.setup_status[module_hash] = success
Put(d, k, v) == [x \in DOMAIN d \cup {k} |-> IF x = k THEN v ELSE d[x]]

\* every module taken to have dependencies
HasDependenciesAlways(m) == TRUE

\* lines 55-56: len(dependencies) > 0
HasDependencies(m) == Len(all_modules_preloaded[m].dependencies) > 0

\* retry_deps left out of the decision
NeedsInstallIgnoresRetry(d, success) ==
    \/ success = "None"
    \/ d.force_deps

\* line 61: the cached status is missing, or False with retry_deps, or force_deps
NeedsInstall(d, success) ==
    \/ success = "None"
    \/ success = "False" /\ d.retry_deps
    \/ d.force_deps

\* a failed module appended to neither list
ReportDropsFailed(d, m, success) ==
    IF success = "True" \/ d.ignore_failed_deps
    THEN [d EXCEPT !.succeeded = Append(@, m), !.i = @ + 1]
    ELSE [d EXCEPT !.i = @ + 1]

\* lines 74-79 and 81-90: succeeded if success or ignore_failed_deps, else failed
Report(d, m, success) ==
    IF success = "True" \/ d.ignore_failed_deps
    THEN [d EXCEPT !.succeeded = Append(@, m), !.i = @ + 1]
    ELSE [d EXCEPT !.failed = Append(@, m), !.i = @ + 1]

\* an exception leaves the loop for the finally clause
Raise(d, events) ==
    [d EXCEPT !.calls = @ \o events, !.pc = "finally", !.raised = TRUE]

\* lines 41-90, one pass of the loop for modules[i]; root_ok and out are what
\* ensure_root() and install_module() do if they are called
LoopBody(d, root_ok, out) ==
    LET m == d.modules[d.i]
    IN  IF d.no_deps
        THEN [d EXCEPT !.succeeded = Append(@, m), !.i = @ + 1]
        ELSE IF m \notin DOMAIN all_modules_preloaded
        THEN [d EXCEPT !.failed = Append(@, m), !.i = @ + 1]
        ELSE
          LET preloaded == all_modules_preloaded[m]
              module_hash == preloaded.deps_hash
              success == Get(d.setup_status, module_hash)
              root == IF preloaded.sudo
                      THEN <<[fn |-> "ensure_root", module |-> m,
                              outcome |-> IF root_ok THEN "returns" ELSE "raises"]>>
                      ELSE <<>>
              call == <<[fn |-> "install_module", module |-> m, outcome |-> out]>>
          IN  IF ~HasDependencies(m)
              THEN [d EXCEPT !.succeeded = Append(@, m), !.i = @ + 1]
              ELSE IF NeedsInstall(d, success)
              THEN IF preloaded.sudo /\ ~root_ok
                   THEN Raise(d, root)
                   ELSE IF out = "raises"
                   THEN Raise(d, root \o call)
                   ELSE Report([d EXCEPT !.calls = @ \o root \o call,
                                         !.setup_status = Put(@, module_hash, out)],
                               m, out)
              ELSE Report(d, m, success)

\* lines 20-34: setup_status read from the cache file, the flags from the config
NewInstaller(status, no_deps, force_deps, retry_deps, ignore_failed_deps) ==
    [pc |-> "idle",
     setup_status |-> status,
     file |-> JsonDump(status),
     no_deps |-> no_deps,
     force_deps |-> force_deps,
     retry_deps |-> retry_deps,
     ignore_failed_deps |-> ignore_failed_deps,
     modules |-> <<>>, i |-> 0,
     succeeded |-> <<>>, failed |-> <<>>,
     calls |-> <<>>, writes |-> 0, raised |-> FALSE]

\* the comparator is not in use
NoComparator ==
    /\ state = "Uncalibrated"
    /\ error = "none"
    /\ init_pc = "call1"
    /\ log = <<>>
    /\ baseline = NoResponse
    /\ baseline_2 = NoResponse
    /\ baseline_json = UnsetJson
    /\ baseline_ignore_headers = <<>>
    /\ baseline_body_distance = UnsetDistance
    /\ call_1 = NoResponse
    /\ call_2 = NoResponse
    /\ calib_dynamic = {}
    /\ inv = [t \in Calls |-> IdleInv]

comparator_vars ==
    <<state, error, init_pc, log, baseline, baseline_2, baseline_json,
      baseline_ignore_headers, baseline_body_distance, call_1, call_2,
      calib_dynamic, inv>>

InitDeps ==
    /\ NoComparator
    /\ \E status \in SetupStatuses, no_deps \in BOOLEAN, force_deps \in BOOLEAN,
          retry_deps \in BOOLEAN, ignore_failed_deps \in BOOLEAN :
          deps = NewInstaller(status, no_deps, force_deps, retry_deps, ignore_failed_deps)

\* lines 36-40: install(*modules) is called
InstallCall ==
    /\ deps.pc = "idle"
    /\ \E modules \in ModuleLists :
          deps' = [deps EXCEPT !.pc = "loop", !.modules = modules, !.i = 1]
    /\ UNCHANGED comparator_vars

\* lines 41-90: the loop body runs for the next module
InstallStep ==
    /\ deps.pc = "loop"
    /\ deps.i <= Len(deps.modules)
    /\ \E root_ok \in BOOLEAN, out \in InstallOutcomes :
          deps' = LoopBody(deps, root_ok, out)
    /\ UNCHANGED comparator_vars

\* line 41: no module is left
InstallLoopEnd ==
    /\ deps.pc = "loop"
    /\ deps.i > Len(deps.modules)
    /\ deps' = [deps EXCEPT !.pc = "finally"]
    /\ UNCHANGED comparator_vars

\* the cache written only when the loop ended without an exception
InstallFinallyOnReturnOnly ==
    /\ deps.pc = "finally"
    /\ deps' = IF deps.raised
               THEN [deps EXCEPT !.pc = "raised"]
               ELSE [deps EXCEPT !.file = JsonDump(deps.setup_status),
                                 !.writes = @ + 1,
                                 !.pc = "returned"]
    /\ UNCHANGED comparator_vars

\* lines 92-95: write_setup_status(), then return or let the exception go on
InstallFinally ==
    /\ deps.pc = "finally"
    /\ deps' = [deps EXCEPT !.file = JsonDump(deps.setup_status),
                            !.writes = @ + 1,
                            !.pc = IF deps.raised THEN "raised" ELSE "returned"]
    /\ UNCHANGED comparator_vars

NextDeps ==
    \/ InstallCall
    \/ InstallStep
    \/ InstallLoopEnd
    \/ InstallFinally

SpecDeps == InitDeps /\ [][NextDeps]_vars

-----------------------------------------------------------------------------
(* properties of DepsInstaller.install *)

\* the loop body is about to run for modules[i]
AtModule == deps.pc = "loop" /\ deps.i <= Len(deps.modules)

\* the module the loop body is about to run for
Module == deps.modules[deps.i]

\* the entries the step appends to the log of calls
NewCalls == SubSeq(deps'.calls, Len(deps.calls) + 1, Len(deps'.calls))

\* the step calls install_module
Invoked == \E k \in DOMAIN NewCalls : NewCalls[k].fn = "install_module"

\* the step is ended by an exception of ensure_root or install_module
StepRaises == deps'.pc = "finally" /\ deps'.raised

\* the step appends the module to succeeded and nothing to failed
ReportedSucceeded ==
    /\ deps'.succeeded = Append(deps.succeeded, Module)
    /\ deps'.failed = deps.failed

\* the step appends the module to failed and nothing to succeeded
ReportedFailed ==
    /\ deps'.failed = Append(deps.failed, Module)
    /\ deps'.succeeded = deps.succeeded

\* a step for a known module with a dependency, no_deps off
AtDecision ==
    /\ AtModule
    /\ ~deps.no_deps
    /\ Module \in DOMAIN all_modules_preloaded
    /\ Len(all_modules_preloaded[Module].dependencies) > 0

\* line 61 read off the state before the step
InstallCondition ==
    LET cached == Get(deps.setup_status, all_modules_preloaded[Module].deps_hash)
    IN  \/ cached = "None"
        \/ cached = "False" /\ deps.retry_deps
        \/ deps.force_deps

\* the step reports the module by the status now in the cache, or by
\* ignore_failed_deps
ReportedByStatus ==
    LET status == Get(deps'.setup_status, all_modules_preloaded[Module].deps_hash)
    IN  IF status = "True" \/ deps.ignore_failed_deps
        THEN ReportedSucceeded
        ELSE ReportedFailed

\* C17 as stated: for a known module with a dependency and no_deps off,
\* install_module is invoked iff the cached status is absent, or False with
\* retry_deps, or force_deps is set, and the cache entry is then the new
\* outcome; otherwise nothing is installed and the cache is untouched; in both
\* branches the module is reported succeeded iff the status is true or
\* ignore_failed_deps is set.
C17_AsStated ==
    [][AtDecision =>
          /\ Invoked <=> InstallCondition
          /\ InstallCondition
             => /\ all_modules_preloaded[Module].deps_hash \in DOMAIN deps'.setup_status
                /\ deps'.setup_status[all_modules_preloaded[Module].deps_hash]
                     = NewCalls[Len(NewCalls)].outcome
          /\ ~InstallCondition
             => deps'.calls = deps.calls /\ deps'.setup_status = deps.setup_status
          /\ ReportedByStatus]_vars

\* C17 amended: the rule of C17 holds of every step that no exception ends.
\* install_module is invoked iff the condition holds and ensure_root, if
\* called, returned; a step ended by an exception of ensure_root or of
\* install_module happens only under the condition, and leaves the cache and
\* both lists as they were.
C17_InstallDecision ==
    [][AtDecision =>
          /\ Invoked
             <=> /\ InstallCondition
                 /\ ~\E k \in DOMAIN NewCalls :
                        NewCalls[k].fn = "ensure_root" /\ NewCalls[k].outcome = "raises"
          /\ StepRaises
             => /\ InstallCondition
                /\ deps'.setup_status = deps.setup_status
                /\ deps'.succeeded = deps.succeeded
                /\ deps'.failed = deps.failed
          /\ ~StepRaises
             => /\ InstallCondition
                   => /\ all_modules_preloaded[Module].deps_hash
                           \in DOMAIN deps'.setup_status
                      /\ deps'.setup_status[all_modules_preloaded[Module].deps_hash]
                           = NewCalls[Len(NewCalls)].outcome
                /\ ~InstallCondition
                   => deps'.calls = deps.calls /\ deps'.setup_status = deps.setup_status
                /\ ReportedByStatus]_vars

\* C17 witness: an install that failed is in the cache as False, its module
\* reported succeeded under ignore_failed_deps
C17_Witness ==
    /\ deps.pc = "returned"
    /\ deps.ignore_failed_deps
    /\ deps.modules = <<"a">>
    /\ deps.succeeded = <<"a">>
    /\ deps.calls = <<[fn |-> "install_module", module |-> "a", outcome |-> "False"]>>
    /\ deps.setup_status = [h \in {"h1"} |-> "False"]

\* the elements of s at the indexes in S, in the order of s
RECURSIVE Pick(_, _)
Pick(s, S) ==
    IF s = <<>> THEN <<>>
    ELSE LET n == Len(s)
             rest == Pick(SubSeq(s, 1, n - 1), S)
         IN  IF n \in S THEN Append(rest, s[n]) ELSE rest

\* C18: when install() returns, succeeded and failed partition the argument
\* list: every occurrence of a module is in one of the two lists and not in
\* the other, each list is in the order of the arguments, and no other name is
\* in either; during the loop the same holds of the modules already handled.
C18_Partition ==
    deps.pc \in {"loop", "returned"} =>
        LET handled == IF deps.pc = "returned" THEN Len(deps.modules) ELSE deps.i - 1
        IN  \E S \in SUBSET (1..handled) :
               /\ deps.succeeded = Pick(deps.modules, S)
               /\ deps.failed = Pick(deps.modules, (1..handled) \ S)

\* C18 witness: install("x", "a") has returned with one module in each list
C18_Witness ==
    /\ deps.pc = "returned"
    /\ Len(deps.modules) = MaxModules
    /\ deps.succeeded # <<>>
    /\ deps.failed # <<>>

\* C19: write_setup_status() runs once in every install(), after the loop,
\* also when an exception ended the loop, and what it writes is setup_status
\* as it is then, with the outcome of every install_module() that returned
\* before the exception.
C19_CachePersistedOnEveryExit ==
    /\ deps.pc \in {"loop", "finally"} => deps.writes = 0
    /\ deps.pc \in {"returned", "raised"}
       => /\ deps.writes = 1
          /\ deps.file = JsonDump(deps.setup_status)
          /\ JsonLoad(deps.file) = deps.setup_status
          /\ \A k \in DOMAIN deps.calls :
                ( /\ deps.calls[k].fn = "install_module"
                  /\ deps.calls[k].outcome # "raises" )
                => all_modules_preloaded[deps.calls[k].module].deps_hash
                     \in DOMAIN JsonLoad(deps.file)

\* C19 witness: install_module() returned for one module and raised for the
\* next, and the cache file has the first outcome
C19_Witness ==
    /\ deps.pc = "raised"
    /\ deps.writes = 1
    /\ Len(deps.calls) > 1
    /\ deps.calls[1].fn = "install_module"
    /\ deps.calls[1].outcome = "False"
    /\ <<"h1", "false">> \in deps.file

\* the step calls nothing and leaves the cache alone
NoInstallAttempt ==
    /\ deps'.calls = deps.calls
    /\ deps'.setup_status = deps.setup_status

\* C20: with no_deps every module, known or not, is reported succeeded, with
\* no call of install_module or ensure_root and no change of setup_status;
\* without no_deps an unknown name is reported failed and a known module with
\* no dependencies succeeded, both with no install attempt and no cache change.
C20_SkippedModulesFrame ==
    [][/\ AtModule /\ deps.no_deps => ReportedSucceeded /\ NoInstallAttempt
       /\ AtModule /\ ~deps.no_deps /\ Module \notin DOMAIN all_modules_preloaded
          => ReportedFailed /\ NoInstallAttempt
       /\ ( /\ AtModule /\ ~deps.no_deps
            /\ Module \in DOMAIN all_modules_preloaded
            /\ all_modules_preloaded[Module].dependencies = <<>> )
          => ReportedSucceeded /\ NoInstallAttempt
       /\ deps.no_deps /\ deps'.pc = "returned"
          => /\ deps'.succeeded = deps'.modules
             /\ deps'.failed = <<>>
             /\ deps'.calls = <<>>
             /\ deps'.file = deps.file]_vars

\* C20 witness: install("x", "c") under force_deps has returned, "x" failed
\* and "c" succeeded with nothing installed
C20_Witness ==
    /\ deps.pc = "returned"
    /\ ~deps.no_deps
    /\ deps.force_deps
    /\ deps.modules = <<"x", "c">>
    /\ deps.failed = <<"x">>
    /\ deps.succeeded = <<"c">>
    /\ deps.calls = <<>>

====
